---- MODULE Spec2Model ----
(***************************************************************************)
(* AutoPrepML: the preprocessing pipeline of src/preprocessing.py          *)
(* (autoprepml and its helpers) as a state machine.                        *)
(*                                                                         *)
(* Representation.  A string is a sequence of one-character strings.  A    *)
(* data frame is a record [names, dtypes, rows]; a row is a sequence of    *)
(* cells, a cell an integer (a number, or the code of a category) or NA.   *)
(* Numbers are exact: quantiles are kept as numerators over 4, IQR fences  *)
(* as numerators over 8, and a numeric column of the clipped frame X holds *)
(* its values multiplied by 8 (the inputs are small integers, for which    *)
(* the float arithmetic of the code is exact as well).                     *)
(***************************************************************************)
EXTENDS Integers, Sequences, FiniteSets, TLC

VARIABLES
    norm,          \* a frame's column index under repeated normalize_columns
    input,         \* per run: the caller's data frame and target string
    pc,            \* per run: the position of the run in autoprepml
    prep,          \* per run: locals after lines 80-109
    part,          \* per run: the train/test partition (lines 111-123)
    preprocessor,  \* per run: the fitted ColumnTransformer (line 145)
    out,           \* per run: X_train_p, X_test_p, feature_names
    result,        \* per run: the returned dict
    file,          \* autoprepml_pipeline.pkl
    dumps          \* history: the runs that executed joblib.dump, in order

vars == <<norm, input, pc, prep, part, preprocessor, out, result, file, dumps>>

runVars == <<input, pc, prep, part, preprocessor, out, result, file, dumps>>

-----------------------------------------------------------------------------
(* Bounds *)

MaxNameLen == 3

MaxRows == 3

OutlierRows == 8

MaxVal == 4

LeakRows == 4

-----------------------------------------------------------------------------
(* Strings *)

Range(s) == {s[i] : i \in 1..Len(s)}

Whitespace == {" ", "\t"}

ToLower(c) ==
    CASE c = "A" -> "a"
      [] c = "B" -> "b"
      [] c = "D" -> "d"
      [] c = "F" -> "f"
      [] c = "I" -> "i"
      [] c = "Y" -> "y"
      [] OTHER -> c

\* the characters of [a-z0-9_] that occur in the model's alphabets
WordChars == {"a", "b", "d", "f", "i", "k", "x", "y", "1", "_"}

RECURSIVE LStrip(_)
LStrip(s) ==
    IF s # <<>> /\ Head(s) \in Whitespace THEN LStrip(Tail(s)) ELSE s

RECURSIVE RStrip(_)
RStrip(s) ==
    IF s # <<>> /\ s[Len(s)] \in Whitespace
    THEN RStrip(SubSeq(s, 1, Len(s) - 1))
    ELSE s

\* str.strip()
StrStrip(s) == RStrip(LStrip(s))

\* str.lower()
StrLower(s) == [i \in 1..Len(s) |-> ToLower(s[i])]

\* str.replace(" ", "_")
StrReplaceSpace(s) == [i \in 1..Len(s) |-> IF s[i] = " " THEN "_" ELSE s[i]]

IsWordChar(c) == c \in WordChars

RECURSIVE StrRemoveFirstNonWord(_)
\* a regex replace that stops after the first match
StrRemoveFirstNonWord(s) ==
    IF s = <<>> THEN s
    ELSE IF ~IsWordChar(Head(s)) THEN Tail(s)
    ELSE <<Head(s)>> \o StrRemoveFirstNonWord(Tail(s))

\* str.replace("[^a-z0-9_]", "", regex=True)
StrRemoveNonWord(s) == SelectSeq(s, IsWordChar)

NormalizeName(s) ==
    StrRemoveNonWord(StrReplaceSpace(StrLower(StrStrip(s))))

\* df.columns after normalize_columns(df)
normalize_columns(columns) ==
    [i \in 1..Len(columns) |-> NormalizeName(columns[i])]

\* target_column.strip().lower().replace(" ", "_")
NormalizeTarget(s) == StrReplaceSpace(StrLower(StrStrip(s)))

-----------------------------------------------------------------------------
(* Column normalization applied to a frame's column index *)

NameAlphabet == {"a", "A", " ", "\t", "-", "_"}

RECURSIVE StringsUpTo(_, _)
StringsUpTo(alphabet, n) ==
    IF n = 0 THEN {<<>>}
    ELSE LET shorter == StringsUpTo(alphabet, n - 1)
         IN  shorter \cup {Append(s, c) : s \in shorter, c \in alphabet}

\* no frame under normalization
NoNorm == [orig |-> <<>>, columns |-> <<>>, applied |-> 0, first |-> <<>>]

\* normalize_columns(df) on a frame that may have been normalized before:
\* the function assigns df.columns in place, so a frame passed twice is
\* normalized twice.
NormalizeColumns ==
    /\ norm.applied < 2
    /\ norm.columns # <<>>
    /\ LET cols == normalize_columns(norm.columns)
       IN  norm' = [orig    |-> norm.orig,
                    columns |-> cols,
                    applied |-> norm.applied + 1,
                    first   |-> IF norm.applied = 0 THEN cols ELSE norm.first]
    /\ UNCHANGED runVars

-----------------------------------------------------------------------------
(* Numbers, missing entries and the IQR fence *)

\* NaN / None: a missing entry.  Every number of a frame is >= 0, and a
\* clipped value is an input value or a fence lying between input values.
NA == -1

IsNull(v) == v = NA

NotNull(v) == v # NA

RECURSIVE InsertSorted(_, _)
InsertSorted(v, s) ==
    IF s = <<>> THEN <<v>>
    ELSE IF v <= Head(s) THEN <<v>> \o s
    ELSE <<Head(s)>> \o InsertSorted(v, Tail(s))

RECURSIVE SortAsc(_)
SortAsc(s) == IF s = <<>> THEN <<>> ELSE InsertSorted(Head(s), SortAsc(Tail(s)))

RECURSIVE SetToSeq(_)
SetToSeq(S) ==
    IF S = {} THEN <<>>
    ELSE LET m == CHOOSE x \in S : \A z \in S : x <= z
         IN  <<m>> \o SetToSeq(S \ {m})

RECURSIVE SumSeq(_)
SumSeq(s) == IF s = <<>> THEN 0 ELSE Head(s) + SumSeq(Tail(s))

\* 4 * Series.quantile(p / 4) of the sorted non-null values s (pandas'
\* default: linear interpolation at position (n - 1) * p / 4)
Quantile4(s, p) ==
    LET h == (Len(s) - 1) * p
        k == h \div 4
        f == h % 4
    IN  IF f = 0 THEN 4 * s[k + 1]
        ELSE 4 * s[k + 1] + f * (s[k + 2] - s[k + 1])

\* 8 * lower and 8 * upper, where iqr = q3 - q1, lower = q1 - 1.5 * iqr and
\* upper = q3 + 1.5 * iqr
Fence8(s) ==
    LET q1  == Quantile4(s, 1)
        q3  == Quantile4(s, 3)
        iqr == q3 - q1
    IN  [lower |-> 2 * q1 - 3 * iqr, upper |-> 2 * q3 + 3 * iqr]

\* ((df[col] < q1 - 1.5 * iqr) | (df[col] > q3 + 1.5 * iqr)).sum()
\* quantile skips missing entries; of a column without values it is NaN,
\* and every comparison with NaN is False.
CountColumn(col) ==
    LET s == SortAsc(SelectSeq(col, NotNull))
    IN  IF s = <<>> THEN 0
        ELSE LET fence == Fence8(s)
             IN  Cardinality({i \in 1..Len(col) :
                     /\ col[i] # NA
                     /\ \/ 8 * col[i] < fence.lower
                        \/ 8 * col[i] > fence.upper})

\* 8 * np.clip(df[col], lower, upper); a missing entry stays missing
ClipColumn(col) ==
    LET s == SortAsc(SelectSeq(col, NotNull))
    IN  IF s = <<>> THEN col
        ELSE LET fence == Fence8(s)
             IN  [i \in 1..Len(col) |->
                     IF col[i] = NA THEN NA
                     ELSE IF 8 * col[i] < fence.lower THEN fence.lower
                     ELSE IF 8 * col[i] > fence.upper THEN fence.upper
                     ELSE 8 * col[i]]

-----------------------------------------------------------------------------
(* Data frames *)

Column(rows, j) == [i \in 1..Len(rows) |-> rows[i][j]]

RemoveAt(s, j) == [i \in 1..(Len(s) - 1) |-> IF i < j THEN s[i] ELSE s[i + 1]]

RECURSIVE DropDupFrom(_, _)
DropDupFrom(rows, seen) ==
    IF rows = <<>> THEN <<>>
    ELSE IF Head(rows) \in seen THEN DropDupFrom(Tail(rows), seen)
    ELSE <<Head(rows)>> \o DropDupFrom(Tail(rows), seen \cup {Head(rows)})

\* df.drop_duplicates(): the first occurrence of every row is kept
drop_duplicates(rows) == DropDupFrom(rows, {})

\* df.duplicated().sum()
duplicated_sum(rows) == Len(rows) - Cardinality(Range(rows))

\* df.isnull().sum().sum()
isnull_sum(rows) ==
    SumSeq([i \in 1..Len(rows) |-> Len(SelectSeq(rows[i], IsNull))])

NumericDtypes == {"int64", "float64"}

CategoricalDtypes == {"object", "category"}

\* detect_column_types: the positions of the numeric and of the categorical
\* columns; a column of any other dtype is in neither list
detect_column_types(dtypes) ==
    [num_cols |-> SetToSeq({j \in 1..Len(dtypes) : dtypes[j] \in NumericDtypes}),
     cat_cols |-> SetToSeq({j \in 1..Len(dtypes) : dtypes[j] \in CategoricalDtypes})]

count_outliers(rows, num_cols) ==
    SumSeq([c \in 1..Len(num_cols) |-> CountColumn(Column(rows, num_cols[c]))])

\* X[num_cols] = handle_outliers(X[num_cols], num_cols): every numeric
\* column clipped to its own fence (and held multiplied by 8 from here on)
handle_outliers(rows, num_cols) ==
    [i \in 1..Len(rows) |->
        [j \in 1..Len(rows[i]) |->
            IF j \in Range(num_cols)
            THEN ClipColumn(Column(rows, j))[i]
            ELSE rows[i][j]]]

-----------------------------------------------------------------------------
(* autoprepml, lines 80-109: normalize, select the mode, deduplicate, *)
(* separate X and y, count and clip the outliers                      *)

Runs == {"r1", "r2"}

None == {}

Some(v) == {v}

Unset == [unset |-> TRUE]

IdNames ==
    {<<"i", "d">>, <<"i", "n", "d", "e", "x">>, <<"r", "o", "w", "_", "i", "d">>}

\* a mode selection that forgets the reserved names
unsupervised_missing_only(target_column, columns) ==
    target_column \notin Range(columns)

\* unsupervised_mode = target_column in ["id", "index", "row_id"]
\*                     or target_column not in df.columns
unsupervised_mode(target_column, columns) ==
    target_column \in IdNames \/ target_column \notin Range(columns)

\* "regression" if y.dtype != "object" else "classification"
problem_type_of(dtype) ==
    IF dtype # "object" THEN "regression" ELSE "classification"

IndexOf(s, x) ==
    CHOOSE j \in 1..Len(s) : s[j] = x /\ \A k \in 1..(j - 1) : s[k] # x

Prepared(inp) ==
    LET columns == normalize_columns(inp.names)
        target  == NormalizeTarget(inp.target)
        unsup   == unsupervised_mode(target, columns)
        df      == drop_duplicates(inp.rows)
        j       == IF unsup THEN 0 ELSE IndexOf(columns, target)
        names   == IF unsup THEN columns ELSE RemoveAt(columns, j)
        dtypes  == IF unsup THEN inp.dtypes ELSE RemoveAt(inp.dtypes, j)
        X0      == IF unsup THEN df
                   ELSE [i \in 1..Len(df) |-> RemoveAt(df[i], j)]
        y       == IF unsup THEN <<>> ELSE Column(df, j)
        ptype   == IF unsup THEN "unsupervised"
                   ELSE problem_type_of(inp.dtypes[j])
        types   == detect_column_types(dtypes)
        X       == handle_outliers(X0, types.num_cols)
    IN  [columns           |-> columns,
         target_column     |-> target,
         unsupervised_mode |-> unsup,
         problem_type      |-> ptype,
         stratify          |-> (ptype = "classification"),
         names             |-> names,
         dtypes            |-> dtypes,
         X                 |-> X,
         y                 |-> y,
         num_cols          |-> types.num_cols,
         cat_cols          |-> types.cat_cols,
         outliers_before   |-> count_outliers(X0, types.num_cols),
         outliers_after    |-> count_outliers(X, types.num_cols)]

Prepare(r) ==
    /\ pc[r] = "start"
    /\ prep' = [prep EXCEPT ![r] = Prepared(input[r])]
    /\ pc' = [pc EXCEPT ![r] = "prepared"]
    /\ UNCHANGED <<norm, input, part, preprocessor, out, result, file, dumps>>

-----------------------------------------------------------------------------
(* lines 111-123: train_test_split(X, y, test_size=0.2, random_state=42, *)
(* stratify=stratify)                                                    *)

\* ceil(0.2 * n)
NTest(n) == (n + 4) \div 5

\* floor(0.8 * n)
NTrain(n) == (4 * n) \div 5

ClassCount(y, c) == Cardinality({i \in 1..Len(y) : y[i] = c})

\* a split that gives up stratifying instead of raising
split_raises_unstratified(p) == NTrain(Len(p.X)) = 0

\* train_test_split raises ValueError: an empty train set; or, stratified,
\* a class with fewer than 2 members or more classes than rows in a part
train_test_split_raises(p) ==
    LET n       == Len(p.X)
        classes == Range(p.y)
    IN  \/ NTrain(n) = 0
        \/ /\ p.stratify
           /\ \/ \E c \in classes : ClassCount(p.y, c) < 2
              \/ NTrain(n) < Cardinality(classes)
              \/ NTest(n) < Cardinality(classes)

\* The rows of the test part.  The shuffle of random_state=42 is a fixed
\* permutation that the source does not show: any part of the right size.
TestParts(n) == {S \in SUBSET (1..n) : Cardinality(S) = NTest(n)}

Split(r) ==
    /\ pc[r] = "prepared"
    /\ LET p == prep[r]
           n == Len(p.X)
       IN  IF p.unsupervised_mode
           THEN /\ part' = [part EXCEPT ![r] =
                               [train |-> SetToSeq(1..n), test |-> <<>>]]
                /\ pc' = [pc EXCEPT ![r] = "split"]
           ELSE IF train_test_split_raises(p)
           THEN /\ pc' = [pc EXCEPT ![r] = "error"]
                /\ UNCHANGED part
           ELSE \E S \in TestParts(n) :
                /\ part' = [part EXCEPT ![r] =
                               [train |-> SetToSeq((1..n) \ S),
                                test  |-> SetToSeq(S)]]
                /\ pc' = [pc EXCEPT ![r] = "split"]
    /\ UNCHANGED <<norm, input, prep, preprocessor, out, result, file, dumps>>

-----------------------------------------------------------------------------
(* lines 125-162: the ColumnTransformer, fitted on X_train             *)
(* A numeric cell of X is 8 * value; the imputer and the scaler work   *)
(* on 16 * value, so that the median of an even number of values is an *)
(* integer.                                                            *)

\* 2 * median of the sorted values s
Median2(s) ==
    LET n == Len(s)
    IN  IF n % 2 = 1 THEN 2 * s[(n + 1) \div 2]
        ELSE s[n \div 2] + s[n \div 2 + 1]

Occurrences(col, v) == Cardinality({i \in 1..Len(col) : col[i] = v})

\* SimpleImputer(strategy="most_frequent"): of several most frequent
\* values the smallest
MostFrequent(col) ==
    LET vals == Range(col) \ {NA}
    IN  CHOOSE v \in vals : \A w \in vals :
            \/ Occurrences(col, v) > Occurrences(col, w)
            \/ Occurrences(col, v) = Occurrences(col, w) /\ v <= w

\* a column of a dtype in neither group: it is not transformed
\* (ColumnTransformer drops the remainder)
NoStat ==
    [kind |-> "dropped", fill |-> 0, n |-> 0, sum |-> 0, sumsq |-> 0,
     categories |-> <<>>]

\* SimpleImputer(strategy="median") and StandardScaler fitted on a column
FitNumeric(col) ==
    LET fill == Median2(SortAsc(SelectSeq(col, NotNull)))
        x    == [i \in 1..Len(col) |-> IF col[i] = NA THEN fill ELSE 2 * col[i]]
    IN  [kind       |-> "num",
         fill       |-> fill,
         n          |-> Len(col),
         sum        |-> SumSeq(x),
         sumsq      |-> SumSeq([i \in 1..Len(x) |-> x[i] * x[i]]),
         categories |-> <<>>]

\* SimpleImputer(strategy="most_frequent") and OneHotEncoder fitted on a
\* column
FitCategorical(col) ==
    [kind       |-> "cat",
     fill       |-> MostFrequent(col),
     n          |-> Len(col),
     sum        |-> 0,
     sumsq      |-> 0,
     categories |-> SetToSeq(Range(col) \ {NA})]

RECURSIVE OneHotNames(_, _)
OneHotNames(stats, cat_cols) ==
    IF cat_cols = <<>> THEN <<>>
    ELSE LET j == Head(cat_cols)
             cats == stats[j].categories
         IN  [k \in 1..Len(cats) |-> <<j, cats[k]>>]
                 \o OneHotNames(stats, Tail(cat_cols))

ScaledNames(num_cols) == [k \in 1..Len(num_cols) |-> <<num_cols[k], NA>>]

\* preprocessor.fit(rows): the statistics of every column and
\* get_feature_names_out(): the numeric columns, then one column per
\* category of every categorical column
fit(rows, num_cols, cat_cols) ==
    LET width == IF rows = <<>> THEN 0 ELSE Len(rows[1])
        stats == [j \in 1..width |->
                    IF j \in Range(num_cols) THEN FitNumeric(Column(rows, j))
                    ELSE IF j \in Range(cat_cols)
                    THEN FitCategorical(Column(rows, j))
                    ELSE NoStat]
    IN  [stats         |-> stats,
         feature_names |-> ScaledNames(num_cols)
                               \o OneHotNames(stats, cat_cols)]

Abs(a) == IF a < 0 THEN 0 - a ELSE a

Sign(a) == IF a < 0 THEN 0 - 1 ELSE IF a > 0 THEN 1 ELSE 0

RECURSIVE GCD(_, _)
GCD(a, b) == IF b = 0 THEN a ELSE GCD(b, a % b)

\* StandardScaler: z = (x - mean) / scale, where scale = sqrt(var), or 1 if
\* var = 0.  With c = n * x - sum and v = n * sumsq - sum * sum (n * n * var),
\* z = c / sqrt(v): it is held as <<sign of z, p, q>> with p / q = z * z in
\* lowest terms, and for var = 0 as <<c', n', 0>> with c' / n' = c / n in
\* lowest terms.
Scaled(st, x) ==
    LET c == st.n * x - st.sum
        v == st.n * st.sumsq - st.sum * st.sum
    IN  IF v = 0
        THEN LET g == GCD(Abs(c), st.n) IN <<c \div g, st.n \div g, 0>>
        ELSE LET g == GCD(c * c, v) IN <<Sign(c), (c * c) \div g, v \div g>>

\* One transformed cell: a scaled number, or an indicator <<0>> or <<1>>; a
\* category not seen in fit gives 0 in every indicator.
TransformCell(st, feature, v) ==
    IF st.kind = "num"
    THEN Scaled(st, IF v = NA THEN st.fill ELSE 2 * v)
    ELSE LET c == IF v = NA THEN st.fill ELSE v
         IN  <<IF c = feature[2] THEN 1 ELSE 0>>

\* preprocessor.transform(rows)
transform(pp, rows) ==
    [i \in 1..Len(rows) |->
        [f \in 1..Len(pp.feature_names) |->
            LET j == pp.feature_names[f][1]
            IN  TransformCell(pp.stats[j], pp.feature_names[f], rows[i][j])]]

Take(rows, idx) == [i \in 1..Len(idx) |-> rows[idx[i]]]

\* every numeric and every categorical column has a value in the rows
HasValues(rows, cols) ==
    \A k \in 1..Len(cols) : Range(Column(rows, cols[k])) # {NA}

\* X_train_p = preprocessor.fit_transform(X_train) and, supervised,
\* X_test_p = preprocessor.transform(X_test).  What scikit-learn does with a
\* column that has no value at all in X_train is not in the source and is
\* left out: such a run does not go on.
Fit(r) ==
    /\ pc[r] = "split"
    /\ HasValues(Take(prep[r].X, part[r].train), prep[r].num_cols)
    /\ HasValues(Take(prep[r].X, part[r].train), prep[r].cat_cols)
    /\ LET p  == prep[r]
           pp == fit(Take(p.X, part[r].train), p.num_cols, p.cat_cols)
       IN  /\ preprocessor' = [preprocessor EXCEPT ![r] = pp]
           /\ out' = [out EXCEPT ![r] =
                         [X_train_p     |-> transform(pp, Take(p.X, part[r].train)),
                          X_test_p      |-> transform(pp, Take(p.X, part[r].test)),
                          feature_names |-> pp.feature_names]]
    /\ pc' = [pc EXCEPT ![r] = "fitted"]
    /\ UNCHANGED <<norm, input, prep, part, result, file, dumps>>

-----------------------------------------------------------------------------
(* line 164: joblib.dump(preprocessor, "autoprepml_pipeline.pkl") *)

\* a dump that keeps a file that is already there
DumpIfAbsent(r) ==
    /\ pc[r] = "fitted"
    /\ file' = IF file = None THEN Some(preprocessor[r]) ELSE file
    /\ dumps' = Append(dumps, r)
    /\ pc' = [pc EXCEPT ![r] = "persisted"]
    /\ UNCHANGED <<norm, input, prep, part, preprocessor, out, result>>

Dump(r) ==
    /\ pc[r] = "fitted"
    /\ file' = Some(preprocessor[r])
    /\ dumps' = Append(dumps, r)
    /\ pc' = [pc EXCEPT ![r] = "persisted"]
    /\ UNCHANGED <<norm, input, prep, part, preprocessor, out, result>>

-----------------------------------------------------------------------------
(* lines 166-188: the quality score and the returned dict *)

Min(a, b) == IF a <= b THEN a ELSE b

\* compute_quality_score(raw_df, cleaned_df, out_before, out_after); the
\* check mark that starts every message is left out
compute_quality_score(raw_df, cleaned_rows, cleaned_width, out_before, out_after) ==
    LET missing    == isnull_sum(cleaned_rows) = 0
        outliers   == out_after < out_before
        duplicates == duplicated_sum(raw_df.rows) > duplicated_sum(cleaned_rows)
        features   == cleaned_width >= Len(raw_df.names)
        score      == (IF missing THEN 30 ELSE 0) + (IF outliers THEN 25 ELSE 0)
                        + (IF duplicates THEN 15 ELSE 0)
                        + (IF features THEN 20 ELSE 0) + 10
    IN  [score  |-> Min(score, 100),
         checks |-> (IF missing THEN <<"Missing values handled">> ELSE <<>>)
                      \o (IF outliers THEN <<"Outliers reduced">> ELSE <<>>)
                      \o (IF duplicates THEN <<"Duplicates removed">> ELSE <<>>)
                      \o (IF features THEN <<"Features encoded & scaled">> ELSE <<>>)
                      \o <<"Leakage-safe pipeline">>]

Return(r) ==
    /\ pc[r] = "persisted"
    /\ LET p == prep[r]
           q == compute_quality_score(input[r], p.X, Len(p.names),
                                      p.outliers_before, p.outliers_after)
       IN  result' = [result EXCEPT ![r] =
              [mode     |-> IF p.unsupervised_mode THEN "unsupervised"
                            ELSE "supervised",
               problem_type       |-> p.problem_type,
               X_train            |-> out[r].X_train_p,
               X_test             |-> IF p.unsupervised_mode THEN None
                                      ELSE Some(out[r].X_test_p),
               y_train            |-> IF p.unsupervised_mode THEN None
                                      ELSE Some(Take(p.y, part[r].train)),
               y_test             |-> IF p.unsupervised_mode THEN None
                                      ELSE Some(Take(p.y, part[r].test)),
               quality_score      |-> q.score,
               quality_checks     |-> q.checks,
               outliers_before    |-> p.outliers_before,
               outliers_after     |-> p.outliers_after,
               raw_features       |-> Len(input[r].names),
               processed_features |-> Len(out[r].feature_names)]]
    /\ pc' = [pc EXCEPT ![r] = "done"]
    /\ UNCHANGED <<norm, input, prep, part, preprocessor, out, file, dumps>>

-----------------------------------------------------------------------------
(* Specifications *)

Frame(names, dtypes, rows, target) ==
    [names |-> names, dtypes |-> dtypes, rows |-> rows, target |-> target]

RECURSIVE RowSeqs(_, _)
\* the sequences of 1 to n rows drawn from the set rowset
RowSeqs(rowset, n) ==
    IF n = 0 THEN {}
    ELSE LET shorter == RowSeqs(rowset, n - 1)
         IN  {<<row>> : row \in rowset} \cup shorter
                \cup {Append(s, row) : s \in shorter, row \in rowset}

NoFrame == Frame(<<>>, <<>>, <<>>, <<>>)

\* the runs of the set started are about to start, r1 on the frame inp and
\* r2 on inp2; the others never run
InitRuns(inp, inp2, started) ==
    /\ input = [r \in Runs |-> IF r = "r1" THEN inp ELSE inp2]
    /\ pc = [r \in Runs |-> IF r \in started THEN "start" ELSE "idle"]
    /\ prep = [r \in Runs |-> Unset]
    /\ part = [r \in Runs |-> Unset]
    /\ preprocessor = [r \in Runs |-> Unset]
    /\ out = [r \in Runs |-> Unset]
    /\ result = [r \in Runs |-> Unset]
    /\ file = None
    /\ dumps = <<>>

Step(r) == Prepare(r) \/ Split(r) \/ Fit(r) \/ Dump(r) \/ Return(r)

NextRun == \E r \in Runs : Step(r)

\* One run on a frame of two columns: a feature "f" (numbers or text, with
\* missing entries) and a second column whose name, dtype and values vary.
SecondNames == {<<"i", "d">>, <<" ", "Y">>, <<"a", "-", "b">>}

TargetNames == {<<"I", "D">>, <<"y", " ">>, <<"a", "-", "b">>, <<"a", "b">>}

FirstDtypes == {"float64", "object"}

SecondDtypes == {"int64", "float64", "object", "category", "bool"}

Init ==
    \E name \in SecondNames, target \in TargetNames,
       d1 \in FirstDtypes, d2 \in SecondDtypes,
       rows \in RowSeqs({NA, 0, 1} \X {0, 1}, MaxRows) :
        /\ norm = NoNorm
        /\ InitRuns(Frame(<<<<"f">>, name>>, <<d1, d2>>, rows, target),
                    NoFrame, {"r1"})

Spec == Init /\ [][NextRun]_vars

\* The column index of a frame of one column, normalized up to twice.
InitNorm ==
    \E name \in StringsUpTo(NameAlphabet, MaxNameLen) :
        /\ norm = [orig |-> <<name>>, columns |-> <<name>>, applied |-> 0,
                   first |-> <<>>]
        /\ InitRuns(NoFrame, NoFrame, {})

SpecNorm == InitNorm /\ [][NormalizeColumns]_vars

\* One unsupervised run on a frame of OutlierRows rows: a numeric column
\* "x" with values in 0..MaxVal and a text column "k" that tells the rows
\* apart (so that drop_duplicates keeps them all).
IsAscending(s) == \A i \in 1..(Len(s) - 1) : s[i] <= s[i + 1]

InitOutlier ==
    \E x \in [1..OutlierRows -> 0..MaxVal] :
        /\ IsAscending(x)
        /\ norm = NoNorm
        /\ InitRuns(Frame(<<<<"x">>, <<"k">>>>, <<"float64", "object">>,
                          [i \in 1..OutlierRows |-> <<x[i], i>>],
                          <<"i", "d">>),
                    NoFrame, {"r1"})

SpecOutlier == InitOutlier /\ [][NextRun]_vars

\* Two supervised runs on frames of LeakRows rows, a numeric feature "f"
\* and a numeric label "y" that differs from row to row; the second frame
\* is the first with the feature value of one row changed.
LeakVals == {0, 1, MaxVal}

InitLeak ==
    \E f \in [1..LeakRows -> LeakVals], j \in 1..LeakRows, v \in LeakVals :
        LET rows1 == [i \in 1..LeakRows |-> <<f[i], i>>]
            rows2 == [i \in 1..LeakRows |-> <<IF i = j THEN v ELSE f[i], i>>]
            names == <<<<"f">>, <<"y">>>>
            dtypes == <<"float64", "int64">>
        IN  /\ norm = NoNorm
            /\ InitRuns(Frame(names, dtypes, rows1, <<"y">>),
                        Frame(names, dtypes, rows2, <<"y">>), Runs)

SpecLeak == InitLeak /\ [][NextRun]_vars

\* Two runs that share the working directory, started by two callers on
\* frames of up to MaxRows rows with a numeric feature "f" and a label "y"
\* of numbers or of text.
ConcFrames ==
    {Frame(<<<<"f">>, <<"y">>>>, <<"float64", d>>, rows, <<"y">>) :
        d \in {"int64", "object"},
        rows \in RowSeqs({<<0, 0>>, <<1, 1>>}, MaxRows)}

InitConc ==
    \E inp1 \in ConcFrames, inp2 \in ConcFrames :
        /\ norm = NoNorm
        /\ InitRuns(inp1, inp2, Runs)

SpecConc == InitConc /\ [][NextRun]_vars

-----------------------------------------------------------------------------
(* Properties *)

Started(r) == pc[r] \notin {"idle", "start"}

PastSplit(r) == pc[r] \notin {"idle", "start", "prepared"}

Awarded(r, check) == check \in Range(result[r].quality_checks)

\* the caller's target: trimmed, lowercased, spaces to underscores
TrimmedTarget(r) == StrReplaceSpace(StrLower(StrStrip(input[r].target)))

\* the run should be unsupervised
ExpectUnsupervised(r) ==
    \/ TrimmedTarget(r) \in IdNames
    \/ TrimmedTarget(r) \notin Range(normalize_columns(input[r].names))

TargetDtype(r) ==
    input[r].dtypes[IndexOf(normalize_columns(input[r].names), TrimmedTarget(r))]

\* C2: in supervised mode problem_type is "regression" if the dtype of the
\* target column is numeric (integer or floating point) and "classification"
\* for every other dtype, and the split is stratified exactly when
\* problem_type is "classification".
C2_ProblemTypeByDtype ==
    \A r \in Runs : (Started(r) /\ ~prep[r].unsupervised_mode) =>
        /\ prep[r].problem_type =
              (IF TargetDtype(r) \in NumericDtypes THEN "regression"
               ELSE "classification")
        /\ prep[r].stratify = (prep[r].problem_type = "classification")

\* C3: the outlier count after clipping, with the fences recomputed on the
\* clipped data, is never above the count before clipping.
C3_OutliersNeverIncrease ==
    \A r \in Runs : pc[r] = "done" =>
        result[r].outliers_after <= result[r].outliers_before

SameTrainRows ==
    /\ part["r1"] = part["r2"]
    /\ \A i \in Range(part["r1"].train) :
          input["r1"].rows[i] = input["r2"].rows[i]
    /\ \A i \in Range(part["r1"].test) :
          input["r1"].rows[i][2] = input["r2"].rows[i][2]

\* C4: two supervised runs whose frames differ only in feature values of
\* rows of the test part return the same X_train, and transform equal test
\* values to equal values.
C4_TrainOnlyStatistics ==
    (pc["r1"] = "done" /\ pc["r2"] = "done" /\ SameTrainRows) =>
        /\ result["r1"].X_train = result["r2"].X_train
        /\ \A i \in 1..Len(part["r1"].test) :
              input["r1"].rows[part["r1"].test[i]]
                    = input["r2"].rows[part["r2"].test[i]]
                 => out["r1"].X_test_p[i] = out["r2"].X_test_p[i]

\* C5: the check "Features encoded & scaled" is awarded exactly when
\* processed_features >= raw_features.
C5_FeaturesCheck ==
    \A r \in Runs : pc[r] = "done" =>
        (Awarded(r, "Features encoded & scaled")
            <=> result[r].processed_features >= result[r].raw_features)

\* the missing entries of the processed frames: a transformed cell is the
\* value computed from an imputed entry, never a missing one
ProcessedMissing(r) ==
    Cardinality({<<i, f>> \in
        (1..Len(out[r].X_train_p)) \X (1..Len(out[r].feature_names)) :
            out[r].X_train_p[i][f] = <<>>})

\* C6: the check "Missing values handled" is awarded exactly when the
\* processed frame has no missing entry; so it is awarded when the missing
\* entries of the input all lie in numeric or categorical feature columns
\* (in these frames they all lie in the feature column "f").
C6_MissingCheck ==
    \A r \in Runs : pc[r] = "done" =>
        /\ Awarded(r, "Missing values handled") <=> (ProcessedMissing(r) = 0)
        /\ Awarded(r, "Missing values handled")

\* C7: the check "Duplicates removed" is awarded exactly when the raw frame
\* has a duplicated row.
C7_DuplicatesCheck ==
    \A r \in Runs : pc[r] = "done" =>
        (Awarded(r, "Duplicates removed")
            <=> duplicated_sum(input[r].rows) >= 1)

HasSingletonClass(r) ==
    \E c \in Range(prep[r].y) : ClassCount(prep[r].y, c) < 2

\* C8: a classification run whose labels, after deduplication, have a class
\* of fewer than 2 rows ends in an error at the split: nothing is fitted,
\* persisted, scored or returned.
C8_SplitErrorPropagates ==
    \A r \in Runs :
        (PastSplit(r) /\ prep[r].problem_type = "classification"
                      /\ HasSingletonClass(r)) =>
            /\ pc[r] = "error"
            /\ part[r] = Unset
            /\ preprocessor[r] = Unset
            /\ out[r] = Unset
            /\ result[r] = Unset
            /\ r \notin Range(dumps)

\* the split raised for a frame with a class of one row beside a class of
\* two rows
C8_Witness ==
    /\ pc["r1"] = "error"
    /\ prep["r1"].problem_type = "classification"
    /\ HasSingletonClass("r1")
    /\ \E c \in Range(prep["r1"].y) : ClassCount(prep["r1"].y, c) >= 2

\* C9: normalize_columns applied twice gives the names it gives applied
\* once, and every normalized name consists of characters of [a-z0-9_].
C9_NormalizeIdempotent ==
    /\ norm.applied = 2 => norm.columns = norm.first
    /\ norm.applied >= 1 =>
          \A i \in 1..Len(norm.columns) : Range(norm.columns[i]) \subseteq WordChars

\* a name that the first normalization changed, normalized twice
C9_Witness ==
    /\ norm.applied = 2
    /\ norm.first # norm.orig
    /\ norm.first # <<<<>>>>

\* C10: the file holds the transform of the run that dumped last; a run that
\* failed did not write it; a run that returned wrote its own transform
\* before.
C10_LastWriterWins ==
    /\ dumps = <<>> => file = None
    /\ dumps # <<>> => file = Some(preprocessor[dumps[Len(dumps)]])
    /\ \A r \in Runs :
          /\ pc[r] = "error" => r \notin Range(dumps)
          /\ pc[r] = "done" => r \in Range(dumps)

\* a run has returned and the file holds another run's transform, which
\* differs from the one that produced the result
C10_Witness ==
    \E r \in Runs :
        /\ pc[r] = "done"
        /\ file # None
        /\ file # Some(preprocessor[r])

====
